---- MODULE Spec2Model ----
(***************************************************************************)
(* Model of rusterio's geometry / resampling pipeline:                     *)
(*   Rect intersection, Raster::stack, Raster::view (InfoView::new),       *)
(*   View::clip and ReadView::read with the ResolutionChunker.             *)
(*                                                                         *)
(* Conventions.  Coordinates are records [x, y]; rectangles are records    *)
(* [min, max] and are always built with Rect_new, which orders the corners *)
(* like geo::Rect::new.  A band group's GeoReadTransform is the inverse of *)
(* a north-up GDAL transform (res, 0, xoff, 0, -res, ytop): it is kept as  *)
(* the record [xoff, ytop, res].  f64 arithmetic is modelled exactly, as   *)
(* rationals num/den over the integers.                                    *)
(***************************************************************************)
EXTENDS Integers, Sequences, FiniteSets, TLC

VARIABLES
    rect_a,       \* lhs of a Rect intersection
    rect_b,       \* rhs of a Rect intersection
    rect_out,     \* Result<Rect> of rect_a.intersection(&rect_b)
    sel_indexes,  \* the Indexes a selection is made with
    sel_items,    \* the Vec<T> handed to Indexes::select_from
    sel_out,      \* what Indexes::select_from returned
    rasters,      \* the Vec<Raster> handed to Raster::stack
    raster,       \* Result<Raster> of Raster::stack
    view,         \* the current View (Result of Raster::view / View::clip)
    view_geo,     \* the GeoBounds InfoView::new was built over
    buff,         \* the Buffer<T, 3> data being filled by read()
    tasks,        \* per band position: state of its parallel task
    saved_error,  \* the error the parallel collect has saved, if any
    result,       \* what the last call returned
    pc            \* position of the caller

vars == <<rect_a, rect_b, rect_out, sel_indexes, sel_items, sel_out, rasters, raster, view, view_geo, buff,
          tasks, saved_error, result, pc>>

indexes_vars == <<sel_indexes, sel_items, sel_out>>

(***************************************************************************)
(* Bounds of the model                                                     *)
(***************************************************************************)
MaxCoord == 2
MaxStack == 3
MaxClipOffset == 1
MaxClipShape == 3
MaxIndex == 3
MaxSelection == 3
MaxCollection == 3

(***************************************************************************)
(* Arithmetic helpers                                                      *)
(***************************************************************************)
Min2(a, b) == IF a < b THEN a ELSE b
Max2(a, b) == IF a > b THEN a ELSE b

\* f64 floor / ceil of the rational n/d, d > 0
Floor(n, d) == n \div d
Ceil(n, d) == -((-n) \div d)

\* num_traits::cast f64 -> usize of the rational n/d (d > 0): truncates
\* toward zero, fails for values <= -1.  -1 stands for the failed cast.
try_cast(n, d) ==
    IF n >= 0 THEN n \div d
    ELSE IF -n < d THEN 0 ELSE -1

RECURSIVE gcd(_, _)
gcd(a, b) == IF b = 0 THEN a ELSE gcd(b, a % b)

\* num::integer::lcm on usize
lcm(a, b) == IF a = 0 \/ b = 0 THEN 0 ELSE (a \div gcd(a, b)) * b

\* usize::div_ceil, rhs > 0
div_ceil(a, b) == (a + b - 1) \div b

(***************************************************************************)
(* Rect and its intersection                                               *)
(***************************************************************************)
Coord(x, y) == [x |-> x, y |-> y]

\* geo::Rect::new: orders the two corners componentwise
Rect_new(c1, c2) ==
    [min |-> Coord(Min2(c1.x, c2.x), Min2(c1.y, c2.y)),
     max |-> Coord(Max2(c1.x, c2.x), Max2(c1.y, c2.y))]

\* Bounds::shape
shape(b) == Coord(b.max.x - b.min.x, b.max.y - b.min.y)

\* PixelBounds::size
size(b) == shape(b).x * shape(b).y

Ok(v) == [ok |-> TRUE, val |-> v]
Err(e) == [ok |-> FALSE, err |-> e]
None == [none |-> TRUE]

intersection_swapped(lhs, rhs) ==
    IF (lhs.max.x < rhs.min.x) \/ (lhs.max.y < rhs.min.y)
    THEN Err("NoIntersection")
    ELSE IF (lhs.min.x > rhs.max.x) \/ (lhs.min.y > rhs.max.y)
    THEN Err("NoIntersection")
    ELSE Ok(Rect_new(
            Coord(Min2(lhs.min.x, rhs.min.x), Min2(lhs.min.y, rhs.min.y)),
            Coord(Max2(lhs.max.x, rhs.max.x), Max2(lhs.max.y, rhs.max.y))))

intersection_open(lhs, rhs) ==
    IF (lhs.max.x <= rhs.min.x) \/ (lhs.max.y <= rhs.min.y)
    THEN Err("NoIntersection")
    ELSE IF (lhs.min.x >= rhs.max.x) \/ (lhs.min.y >= rhs.max.y)
    THEN Err("NoIntersection")
    ELSE Ok(Rect_new(
            Coord(Max2(lhs.min.x, rhs.min.x), Max2(lhs.min.y, rhs.min.y)),
            Coord(Min2(lhs.max.x, rhs.max.x), Min2(lhs.max.y, rhs.max.y))))

\* impl Intersection for Rect<T>
intersection(lhs, rhs) ==
    IF (lhs.max.x < rhs.min.x) \/ (lhs.max.y < rhs.min.y)
    THEN Err("NoIntersection")
    ELSE IF (lhs.min.x > rhs.max.x) \/ (lhs.min.y > rhs.max.y)
    THEN Err("NoIntersection")
    ELSE Ok(Rect_new(
            Coord(Max2(lhs.min.x, rhs.min.x), Max2(lhs.min.y, rhs.min.y)),
            Coord(Min2(lhs.max.x, rhs.max.x), Min2(lhs.max.y, rhs.max.y))))

\* every Rect<usize> with corners in 0..MaxCoord
Rects ==
    { Rect_new(Coord(x0, y0), Coord(x1, y1)) :
        x0 \in 0..MaxCoord, y0 \in 0..MaxCoord,
        x1 \in 0..MaxCoord, y1 \in 0..MaxCoord }

(***************************************************************************)
(* Files, groups and Raster::new                                           *)
(***************************************************************************)
\* One opened file = one band group.  xoff, ytop, res are the GDAL
\* transform; w, h the raster size in pixels; nb the number of bands read.
File(id, xoff, ytop, res, w, h, nb) ==
    [id |-> id, xoff |-> xoff, ytop |-> ytop, res |-> res,
     w |-> w, h |-> h, nb |-> nb]

F1 == File(1, 0, 6, 1, 6, 6, 2)   \* [0,6] x [0,6] at 1 unit / pixel, 2 bands
F2 == File(2, 0, 6, 2, 3, 3, 1)   \* same extent, 2 units / pixel
F3 == File(3, 0, 6, 3, 2, 2, 1)   \* same extent, 3 units / pixel
F4 == File(4, 1, 6, 2, 3, 3, 1)   \* [1,7] x [0,6]: partial overlap
F5 == File(5, 7, 6, 1, 2, 2, 1)   \* [7,9] x [4,6]: touches F4 only

Catalogue == {F1, F2, F3, F4, F5}

\* GdalFile::geo_bounds
geo_bounds(f) ==
    Rect_new(Coord(f.xoff, f.ytop - f.res * f.h),
             Coord(f.xoff + f.res * f.w, f.ytop))

\* Raster::new: the file's bounds and its single group
Raster_new(f) == [bounds |-> geo_bounds(f), bands |-> <<f>>]

(***************************************************************************)
(* Raster::stack                                                           *)
(***************************************************************************)
\* The fold of Raster::stack from input k on; acc is (stack_geo_bounds,
\* stack_bands).  `steps` counts the inputs the fold has taken.
RECURSIVE stack_fold(_, _, _)
stack_fold(rs, k, acc) ==
    IF k > Len(rs)
    THEN [ok |-> TRUE, val |-> acc, steps |-> Len(rs)]
    ELSE LET r == intersection(acc.bounds, rs[k].bounds) IN
         IF ~r.ok
         THEN [ok |-> FALSE, err |-> r.err, steps |-> k]
         ELSE stack_fold(rs, k + 1,
                         [bounds |-> r.val, bands |-> acc.bands \o rs[k].bands])

stack_last_only(rs) ==
    IF Len(rs) = 1 THEN stack_fold(rs, 2, rs[1])
    ELSE stack_fold(rs, Len(rs), rs[Len(rs) - 1])

stack_no_abort(rs) ==
    LET r == stack_fold(rs, 2, rs[1]) IN
    IF r.ok THEN r
    ELSE [ok |-> TRUE, val |-> rs[1], steps |-> Len(rs)]

\* Raster::stack(rasters), rasters non-empty
stack(rs) == stack_fold(rs, 2, rs[1])

RasterLists(n) == UNION { [1..k -> {Raster_new(f) : f \in Catalogue}] : k \in 1..n }

(***************************************************************************)
(* Band selection: Indexes and RasterBands::group_band                     *)
(***************************************************************************)
Range(f) == { f[i] : i \in DOMAIN f }

\* the first n naturals not in `drop`, ascending, starting the scan at k
RECURSIVE kept_sorted(_, _, _)
kept_sorted(k, n, drop) ==
    IF k >= n THEN <<>>
    ELSE IF k \in drop THEN kept_sorted(k + 1, n, drop)
    ELSE <<k>> \o kept_sorted(k + 1, n, drop)

indexes_from_keep_all(idx, collection_len) ==
    IF idx.drop THEN kept_sorted(0, collection_len, {})
    ELSE idx.selection

\* Indexes::indexes_from
indexes_from(idx, collection_len) ==
    IF idx.drop THEN kept_sorted(0, collection_len, Range(idx.selection))
    ELSE idx.selection

\* Indexes::select_from (indexes are 0-based, sequences 1-based)
select_from(idx, collection) ==
    LET is == indexes_from(idx, Len(collection)) IN
    [k \in 1..Len(is) |-> collection[is[k] + 1]]

\* collection[*idx] in select_from panics on an index past the end
select_panics(idx, collection) ==
    \E k \in DOMAIN indexes_from(idx, Len(collection)) :
        indexes_from(idx, Len(collection))[k] >= Len(collection)

\* Indexes::all
Indexes_all == [selection |-> <<>>, drop |-> TRUE]

\* bands of group g as (group, band) pairs
group_pairs(g, f) == [b \in 1..f.nb |-> [g |-> g, file |-> f, band |-> b - 1]]

\* RasterBands::group_band: groups in order, bands in order inside each
RECURSIVE group_band_from(_, _)
group_band_from(groups, g) ==
    IF g > Len(groups) THEN <<>>
    ELSE group_pairs(g, groups[g]) \o group_band_from(groups, g + 1)

group_band(r) == group_band_from(r.bands, 1)

(***************************************************************************)
(* Bounds conversions and the view builder                                 *)
(***************************************************************************)
\* the same line rounded outward: floor on the minimum, ceil on the maximum
as_read_bounds_outward(gb, f) ==
    Rect_new(
        Coord(Floor(gb.min.x - f.xoff, f.res), Floor(f.ytop - gb.max.y, f.res)),
        Coord(Ceil(gb.max.x - f.xoff, f.res), Ceil(f.ytop - gb.min.y, f.res)))

\* GeoBounds::as_read_bounds: the line min -> max through the group's
\* geo-to-read transform, each coordinate cast to usize, bounding rect
GeoBounds_as_read_bounds(gb, f) ==
    Rect_new(
        Coord(try_cast(gb.min.x - f.xoff, f.res), try_cast(f.ytop - gb.min.y, f.res)),
        Coord(try_cast(gb.max.x - f.xoff, f.res), try_cast(f.ytop - gb.max.y, f.res)))

\* the lcm fold of build_raster_view_bounds over the remaining shapes
RECURSIVE lcm_shapes(_, _)
lcm_shapes(acc, shapes) ==
    IF shapes = {} THEN acc
    ELSE LET s == CHOOSE s \in shapes : TRUE IN
         lcm_shapes(Coord(lcm(acc.x, s.x), lcm(acc.y, s.y)), shapes \ {s})

max_shapes(gb, groups) ==
    LET shapes == { shape(GeoBounds_as_read_bounds(gb, f)) : f \in groups }
        mx == CHOOSE m \in { s.x : s \in shapes } : \A s \in shapes : s.x <= m
        my == CHOOSE m \in { s.y : s \in shapes } : \A s \in shapes : s.y <= m
    IN Rect_new(Coord(0, 0), Coord(mx, my))

\* GeoBounds::build_raster_view_bounds over the transforms of `groups`
build_raster_view_bounds(gb, groups) ==
    LET shapes == { shape(GeoBounds_as_read_bounds(gb, f)) : f \in groups }
        first == CHOOSE s \in shapes : TRUE
    IN Rect_new(Coord(0, 0), lcm_shapes(first, shapes \ {first}))

\* the loop of build_raster_view_bounds over read_bounds.into_iter()
RECURSIVE lcm_fold(_, _)
lcm_fold(acc, shapes) ==
    IF shapes = <<>> THEN acc
    ELSE lcm_fold(Coord(lcm(acc.x, Head(shapes).x), lcm(acc.y, Head(shapes).y)),
                  Tail(shapes))

build_raster_view_bounds_last_only(gb, order) ==
    Rect_new(Coord(0, 0), shape(GeoBounds_as_read_bounds(gb, order[Len(order)])))

\* GeoBounds::build_raster_view_bounds over the transforms in the order the
\* iterator yields them: pop() takes the last, the loop folds the others
build_raster_view_bounds_in(gb, order) ==
    LET shapes == [k \in DOMAIN order |-> shape(GeoBounds_as_read_bounds(gb, order[k]))]
    IN Rect_new(Coord(0, 0),
                lcm_fold(shapes[Len(shapes)], SubSeq(shapes, 1, Len(shapes) - 1)))

\* ViewReadTransform::new: view -> geo (region extent / view shape, y
\* flipped) composed with the group's geo -> read transform.
\*   x |-> (xo + xn * vx) / xd        y |-> (yo + yn * vy) / yd
ViewReadTransform_new(vb, gb, f) ==
    LET vs == shape(vb) gs == shape(gb) IN
    [xn |-> gs.x, xo |-> (gb.min.x - f.xoff) * vs.x, xd |-> f.res * vs.x,
     yn |-> gs.y, yo |-> (f.ytop - gb.max.y) * vs.y, yd |-> f.res * vs.y]

\* ViewReadTransform::ratio: the x and y scales of the inverse transform,
\* cast with `as usize` (truncation); inverse().unwrap() panics on a
\* transform of scale zero
ViewReadTransform_ratio(t) ==
    IF t.xn = 0 \/ t.yn = 0 THEN [panic |-> TRUE]
    ELSE [panic |-> FALSE, x |-> t.xd \div t.xn, y |-> t.yd \div t.yn]

\* InfoView::new
InfoView_new(gb, selected) ==
    \* the HashSet of the selected bands' groups: only the groups' transforms
    \* are used, so groups of one file count once
    LET groups == { selected[k].file : k \in DOMAIN selected }
        view_bounds == build_raster_view_bounds(gb, groups)
    IN [bounds |-> view_bounds,
        bands |-> [k \in DOMAIN selected |->
                     [transform |-> ViewReadTransform_new(view_bounds, gb, selected[k].file),
                      file |-> selected[k].file,
                      band |-> selected[k].band,
                      g |-> selected[k].g]]]

\* a GeoBounds whose corners are f64::NAN
NaNRect == [nan |-> TRUE]

\* a call that unwound with a panic instead of returning
Panicked == [ok |-> FALSE, panic |-> TRUE]

\* impl Intersection for GeoBounds, on f64: every comparison with NaN is
\* false, so neither early return of Rect::intersection is taken and the
\* closures |x, y| if x > y { x } else { y } pick the NaN of rhs
GeoBounds_intersection(lhs, rhs) ==
    IF rhs = NaNRect THEN Ok(NaNRect) ELSE intersection(lhs, rhs)

\* the try_cast in GeoBounds::as_read_bounds is Err(Uncastable): NaN, or a
\* value no usize holds
cast_fails(gb, f) ==
    IF gb = NaNRect THEN TRUE
    ELSE -1 \in { try_cast(gb.min.x - f.xoff, f.res), try_cast(f.ytop - gb.min.y, f.res),
                  try_cast(gb.max.x - f.xoff, f.res), try_cast(f.ytop - gb.max.y, f.res) }

\* the orders in which a HashSet of `groups` can be iterated
HashOrders(groups) ==
    { o \in [1..Cardinality(groups) -> groups] :
        \A i \in DOMAIN o, j \in DOMAIN o : i # j => o[i] # o[j] }

\* InfoView::new, with the iteration order of view_group_infos given
InfoView_new_in(gb, selected, order) ==
    LET view_bounds == build_raster_view_bounds_in(gb, order)
    IN [bounds |-> view_bounds,
        bands |-> [k \in DOMAIN selected |->
                     [transform |-> ViewReadTransform_new(view_bounds, gb, selected[k].file),
                      file |-> selected[k].file,
                      band |-> selected[k].band,
                      g |-> selected[k].g]]]

\* the groups of the bands a selection picks from a collection of bands
groups_of(band_indexes, bands) ==
    { bands[i + 1].file :
        i \in { j \in Range(indexes_from(band_indexes, Len(bands))) : j < Len(bands) } }

Raster_view_lenient(r, bounds, band_indexes, order) ==
    LET g == IF bounds = None THEN Ok(r.bounds)
             ELSE GeoBounds_intersection(r.bounds, bounds.some)
        is == indexes_from(band_indexes, Len(group_band(r)))
    IN
    IF ~g.ok THEN Err(g.err)
    ELSE IF g.val = NaNRect THEN Panicked
    ELSE IF select_panics(band_indexes, group_band(r)) \/ is = <<>>
    THEN Ok([geo |-> g.val,
             view |-> [bounds |-> Rect_new(Coord(0, 0), Coord(0, 0)), bands |-> <<>>]])
    ELSE Ok([geo |-> g.val,
             view |-> InfoView_new_in(g.val, select_from(band_indexes, group_band(r)), order)])

\* Raster::view, with the iteration order of the HashSet of groups given:
\* select_from panics on an index past the end, read_bounds.pop().unwrap()
\* in build_raster_view_bounds panics when no band is selected
Raster_view_in(r, bounds, band_indexes, order) ==
    LET g == IF bounds = None THEN Ok(r.bounds)
             ELSE GeoBounds_intersection(r.bounds, bounds.some)
    IN
    IF ~g.ok THEN Err(g.err)
    ELSE IF select_panics(band_indexes, group_band(r)) THEN Panicked
    ELSE LET selected == select_from(band_indexes, group_band(r)) IN
         IF \E k \in DOMAIN selected : cast_fails(g.val, selected[k].file) THEN Panicked
         ELSE IF selected = <<>> THEN Panicked
         ELSE Ok([geo |-> g.val, view |-> InfoView_new_in(g.val, selected, order)])

Raster_view_full(r, bounds, band_indexes) ==
    Ok([geo |-> r.bounds,
        view |-> InfoView_new(r.bounds, select_from(band_indexes, group_band(r)))])

\* Raster::view
Raster_view(r, bounds, band_indexes) ==
    LET g == IF bounds = None THEN Ok(r.bounds)
             ELSE GeoBounds_intersection(r.bounds, bounds.some)
        selected == select_from(band_indexes, group_band(r))
    IN
    IF ~g.ok THEN Err(g.err)
    \* select_from: collection[*idx] past the end
    ELSE IF select_panics(band_indexes, group_band(r)) THEN Panicked
    \* build_raster_view_bounds: as_read_bounds(transform) unwraps the cast
    ELSE IF \E k \in DOMAIN selected : cast_fails(g.val, selected[k].file) THEN Panicked
    \* build_raster_view_bounds: read_bounds.pop().unwrap() on no transform
    ELSE IF selected = <<>> THEN Panicked
    ELSE Ok([geo |-> g.val, view |-> InfoView_new(g.val, selected)])

clip_translated(v, bounds) ==
    LET b == intersection(v.bounds,
                 Rect_new(Coord(bounds.min.x + v.bounds.min.x, bounds.min.y + v.bounds.min.y),
                          Coord(bounds.max.x + v.bounds.min.x, bounds.max.y + v.bounds.min.y))) IN
    IF ~b.ok THEN Err(b.err) ELSE Ok([bounds |-> b.val, bands |-> v.bands])

clip_to_rectangle(v, bounds) == Ok([bounds |-> bounds, bands |-> v.bands])

clip_hull(v, bounds) ==
    Ok([bounds |-> Rect_new(Coord(Min2(v.bounds.min.x, bounds.min.x),
                                  Min2(v.bounds.min.y, bounds.min.y)),
                            Coord(Max2(v.bounds.max.x, bounds.max.x),
                                  Max2(v.bounds.max.y, bounds.max.y))),
        bands |-> v.bands])

\* View::clip
clip(v, bounds) ==
    LET b == intersection(v.bounds, bounds) IN
    IF ~b.ok THEN Err(b.err) ELSE Ok([bounds |-> b.val, bands |-> v.bands])

\* ViewBounds::new
ViewBounds_new(offset, shp) ==
    Rect_new(offset, Coord(offset.x + shp.x, offset.y + shp.y))

\* the same line rounded outward: floor on the minimum, ceil on the maximum
as_read_bounds_floor_min(vb, t) ==
    Rect_new(
        Coord(Floor(t.xo + t.xn * vb.min.x, t.xd), Floor(t.yo + t.yn * vb.min.y, t.yd)),
        Coord(Ceil(t.xo + t.xn * vb.max.x, t.xd), Ceil(t.yo + t.yn * vb.max.y, t.yd)))

\* ViewBounds::as_read_bounds: the line min -> max through the view-to-read
\* transform, f64::ceil on every coordinate, cast to usize, bounding rect
ViewBounds_as_read_bounds(vb, t) ==
    Rect_new(
        Coord(Ceil(t.xo + t.xn * vb.min.x, t.xd), Ceil(t.yo + t.yn * vb.min.y, t.yd)),
        Coord(Ceil(t.xo + t.xn * vb.max.x, t.xd), Ceil(t.yo + t.yn * vb.max.y, t.yd)))

(***************************************************************************)
(* The BandReader collaborator                                             *)
(***************************************************************************)
\* Buffer::new: the zeroed allocation, what no task has written yet
Zeroed == 0

\* the stored value of native pixel (px, py) of a band: distinct per band
\* and per pixel
Pixel(f, band, px, py) == ((f.id * 10 + band) * 10 + py) * 10 + px + 1

\* a native window the backend can serve
in_raster(f, rb) ==
    /\ rb.min.x >= 0 /\ rb.min.y >= 0
    /\ rb.max.x <= f.w /\ rb.max.y <= f.h

\* BandReader::read_into_slice / read_to_buffer: the window, row-major
read_window(vband, rb) ==
    LET rs == shape(rb) IN
    [k \in 0..(rs.x * rs.y - 1) |->
        Pixel(vband.file, vband.band, rb.min.x + (k % rs.x), rb.min.y + (k \div rs.x))]

(***************************************************************************)
(* ResolutionChunker                                                       *)
(***************************************************************************)
Running(b) == [panic |-> FALSE, buf |-> b]
Panic == [panic |-> TRUE, buf |-> <<>>]

\* ResolutionChunker::new.  usize::div_ceil and usize::rem panic on a zero
\* divisor; Rect::map_coords rebuilds the rectangle with Rect::new.
ResolutionChunker_new(view_bounds, read_bounds) ==
    LET vs == shape(view_bounds)
        rs == shape(read_bounds)
    IN
    IF rs.x = 0 \/ rs.y = 0 THEN [panic |-> TRUE]
    ELSE
    LET ratio == Coord(div_ceil(vs.x, rs.x), div_ceil(vs.y, rs.y)) IN
    IF ratio.x = 0 \/ ratio.y = 0 THEN [panic |-> TRUE]
    ELSE
    LET relative_bounds ==
            Rect_new(Coord(view_bounds.min.x % ratio.x, view_bounds.min.y % ratio.y),
                     Coord(view_bounds.max.x % ratio.x, view_bounds.max.y % ratio.y))
        relative_top_height == relative_bounds.max.y
    IN
    [panic |-> FALSE,
     ratio |-> ratio,
     left_block_width |-> ratio.x - relative_bounds.min.x,
     top_block_height |-> IF relative_top_height = 0 THEN ratio.y ELSE relative_top_height,
     view_width |-> vs.x,
     read_shape |-> rs]

\* ResolutionChunker::read_row_idx_to_block_height
read_row_idx_to_block_height(ch, row_idx) ==
    IF row_idx = 0 THEN ch.top_block_height ELSE ch.ratio.y

\* ResolutionChunker::read_col_idx_to_block_width
read_col_idx_to_block_width(ch, col_idx) ==
    IF col_idx = 0 THEN ch.left_block_width ELSE ch.ratio.x

\* band_buff[s..e].fill(v); the slice index panics past the end
fill(st, s, e, v) ==
    IF st.panic \/ e > Len(st.buf) \/ s > e THEN Panic
    ELSE Running([i \in DOMAIN st.buf |-> IF i > s /\ i <= e THEN v ELSE st.buf[i]])

\* the inner loop of read_resolution_chucked over col_idx
RECURSIVE chunk_cols(_, _, _, _, _, _)
chunk_cols(ch, read_buff, st, row_idx, row_start, col_idx) ==
    IF st.panic \/ col_idx >= ch.read_shape.x THEN st
    ELSE LET block_width == read_col_idx_to_block_width(ch, col_idx)
             col_start == col_idx * ch.ratio.x + ch.left_block_width - block_width
         IN chunk_cols(ch, read_buff,
                       fill(st, row_start + col_start, row_start + col_start + block_width,
                            read_buff[ch.read_shape.x * row_idx + col_idx]),
                       row_idx, row_start, col_idx + 1)

\* band_buff[row_start..row_start + length].chunks_exact_mut(view_width)
\* reduced with copy_from_slice: every row of the block becomes its first
copy_rows(ch, st, row_start, block_height) ==
    LET length == ch.view_width * block_height IN
    IF st.panic \/ row_start + length > Len(st.buf) THEN Panic
    ELSE Running([i \in DOMAIN st.buf |->
            IF i > row_start /\ i <= row_start + length
            THEN st.buf[row_start + ((i - 1 - row_start) % ch.view_width) + 1]
            ELSE st.buf[i]])

\* the outer loop of read_resolution_chucked over row_idx
RECURSIVE chunk_rows(_, _, _, _)
chunk_rows(ch, read_buff, st, row_idx) ==
    IF st.panic \/ row_idx >= ch.read_shape.y THEN st
    ELSE LET block_height == read_row_idx_to_block_height(ch, row_idx)
             row_start == (row_idx * ch.ratio.y + ch.top_block_height - block_height)
                          * ch.view_width
             filled == chunk_cols(ch, read_buff, st, row_idx, row_start, 0)
         IN chunk_rows(ch, read_buff, copy_rows(ch, filled, row_start, block_height),
                       row_idx + 1)

\* ResolutionChunker::read_resolution_chucked
read_resolution_chucked(ch, read_buff, band_buff) ==
    chunk_rows(ch, read_buff, Running(band_buff), 0)

(***************************************************************************)
(* ReadView::read: one band's task                                         *)
(***************************************************************************)
\* the arm of the match on read_bounds.shape()
read_path(view_shape, read_shape) ==
    IF read_shape = Coord(1, 1) THEN "pixel"
    ELSE IF read_shape = view_shape THEN "direct"
    ELSE "chunked"

\* The closure of ReadView::read for the band at position i, on a fresh
\* band_buff.  io says whether the backend serves the request.
band_task(v, i, io) ==
    LET vband == v.bands[i]
        view_bounds == v.bounds
        read_bounds == ViewBounds_as_read_bounds(view_bounds, vband.transform)
        n == size(view_bounds)
        band_buff == [k \in 1..n |-> Zeroed]
        path == read_path(shape(view_bounds), shape(read_bounds))
        served == io /\ in_raster(vband.file, read_bounds)
    IN
    IF ~served THEN [kind |-> "err", data |-> <<>>, path |-> path]
    ELSE IF path = "pixel"
    THEN [kind |-> "ok", path |-> path,
          data |-> [k \in 1..n |->
                      Pixel(vband.file, vband.band, read_bounds.min.x, read_bounds.min.y)]]
    ELSE IF path = "direct"
    THEN [kind |-> "ok", path |-> path,
          data |-> [k \in 1..n |-> read_window(vband, read_bounds)[k - 1]]]
    ELSE LET ch == ResolutionChunker_new(view_bounds, read_bounds) IN
         IF ch.panic THEN [kind |-> "panic", data |-> <<>>, path |-> path]
         ELSE LET r == read_resolution_chucked(ch, read_window(vband, read_bounds), band_buff) IN
              IF r.panic THEN [kind |-> "panic", data |-> <<>>, path |-> path]
              ELSE [kind |-> "ok", data |-> r.buf, path |-> path]

chunk_start_overlapping(v, i) == (i - 1) * shape(v.bounds).x

\* par_chunks_mut(view_bounds.size()): where the chunk of position i starts
chunk_start(v, i) == (i - 1) * size(v.bounds)

\* the buffer after the task at position i has written `data` to its chunk
write_chunk(b, v, i, data) ==
    [k \in DOMAIN b |->
        IF k > chunk_start(v, i) /\ k <= chunk_start(v, i) + Len(data)
        THEN data[k - chunk_start(v, i)]
        ELSE b[k]]

(***************************************************************************)
(* Inputs of the calls                                                     *)
(***************************************************************************)
Some(b) == [some |-> b]

\* the optional bounds given to Raster::view
UserBounds ==
    {None,
     Some(Rect_new(Coord(2, 0), Coord(6, 4))),
     Some(Rect_new(Coord(1, 1), Coord(4, 5))),
     Some(Rect_new(Coord(4, 4), Coord(5, 5))),
     Some(Rect_new(Coord(10, 0), Coord(12, 2)))}

\* the band selections given to Raster::view on n bands
Selections(n) ==
    {Indexes_all}
    \cup { [selection |-> <<i>>, drop |-> FALSE] : i \in 0..(n - 1) }
    \cup { [selection |-> <<p[1], p[2]>>, drop |-> FALSE] :
             p \in { q \in (0..(n - 1)) \X (0..(n - 1)) : q[1] # q[2] } }

\* the raster lists given to Raster::stack before a view is taken: one
\* group, groups on one grid at 1:2 and at 2:3, groups on shifted grids,
\* extents that only touch, disjoint extents
Scenes ==
    { [k \in DOMAIN fs |-> Raster_new(fs[k])] :
        fs \in { <<F1>>, <<F2>>, <<F1, F2>>, <<F2, F1>>, <<F2, F3>>, <<F1, F4>>,
                 <<F3, F4>>, <<F4, F5>>, <<F1, F5>> } }

\* the rectangles given to View::clip
ClipBounds ==
    { ViewBounds_new(Coord(ox, oy), Coord(sx, sy)) :
        ox \in 0..MaxClipOffset, oy \in 0..MaxClipOffset,
        sx \in 1..MaxClipShape, sy \in 1..MaxClipShape }

(***************************************************************************)
(* Specifications                                                          *)
(***************************************************************************)
\* no selection made
NoSelection == sel_indexes = None /\ sel_items = None /\ sel_out = None

\* no raster call made
Idle_rest ==
    /\ rasters = <<>>
    /\ raster = None
    /\ view = None
    /\ view_geo = None
    /\ buff = <<>>
    /\ tasks = <<>>
    /\ saved_error = None
    /\ result = None

Idle ==
    /\ NoSelection
    /\ Idle_rest

InitRect ==
    /\ rect_a \in Rects
    /\ rect_b \in Rects
    /\ rect_out = None
    /\ Idle
    /\ pc = "rect"

Intersect ==
    /\ pc = "rect"
    /\ rect_out = None
    /\ rect_out' = intersection(rect_a, rect_b)
    /\ UNCHANGED <<indexes_vars, rect_a, rect_b, rasters, raster, view, view_geo, buff,
                   tasks, saved_error, result, pc>>

NextRect == Intersect

SpecRect == InitRect /\ [][NextRect]_vars

InitStack ==
    /\ rect_a = None /\ rect_b = None /\ rect_out = None
    /\ NoSelection
    /\ rasters \in RasterLists(MaxStack)
    /\ raster = None
    /\ view = None
    /\ view_geo = None
    /\ buff = <<>>
    /\ tasks = <<>>
    /\ saved_error = None
    /\ result = None
    /\ pc = "start"

Stack ==
    /\ pc = "start"
    /\ LET r == stack(rasters) IN
       /\ raster' = IF r.ok THEN Ok(r.val) ELSE Err(r.err)
       /\ result' = [op |-> "stack", ok |-> r.ok, steps |-> r.steps]
    /\ pc' = "stacked"
    /\ UNCHANGED <<indexes_vars, rect_a, rect_b, rect_out, rasters, view, view_geo, buff,
                   tasks, saved_error>>

NextStack == Stack

SpecStack == InitStack /\ [][NextStack]_vars

(***************************************************************************)
(* The pipeline: stack, view, clip, read                                   *)
(***************************************************************************)
Init ==
    /\ rect_a = None /\ rect_b = None /\ rect_out = None
    /\ NoSelection
    /\ rasters \in Scenes
    /\ raster = None
    /\ view = None
    /\ view_geo = None
    /\ buff = <<>>
    /\ tasks = <<>>
    /\ saved_error = None
    /\ result = None
    /\ pc = "start"

\* Raster::view(bounds, band_indexes) on the stacked raster
View ==
    /\ pc = "stacked"
    /\ raster.ok
    /\ \E b \in UserBounds, idx \in Selections(Len(group_band(raster.val))) :
         LET r == Raster_view(raster.val, b, idx) IN
         /\ view' = IF r.ok THEN Ok(r.val.view) ELSE Err(r.err)
         /\ view_geo' = IF r.ok THEN r.val.geo ELSE None
         /\ result' = [op |-> "view", ok |-> r.ok]
         /\ pc' = IF r.ok THEN "viewed" ELSE "done"
    /\ UNCHANGED <<indexes_vars, rect_a, rect_b, rect_out, rasters, raster, buff, tasks, saved_error>>

\* Raster::view with bounds that hold a non-finite coordinate
ViewNonFinite ==
    /\ pc = "stacked"
    /\ raster.ok
    /\ \E idx \in Selections(Len(group_band(raster.val))) :
         LET r == Raster_view(raster.val, Some(NaNRect), idx) IN
         /\ view' = IF r.ok THEN Ok(r.val.view) ELSE r
         /\ view_geo' = NaNRect
         /\ result' = [op |-> "view", ok |-> r.ok]
         /\ pc' = IF r.ok THEN "viewed" ELSE "done"
    /\ UNCHANGED <<indexes_vars, rect_a, rect_b, rect_out, rasters, raster, buff, tasks, saved_error>>

\* View::clip(bounds) on the current view; the caller goes on with the
\* clipped view when there is one
Clip ==
    /\ pc = "viewed"
    /\ \E b \in ClipBounds :
         LET r == clip(view.val, b) IN
         /\ view' = IF r.ok THEN r ELSE view
         /\ result' = [op |-> "clip", ok |-> r.ok]
    /\ UNCHANGED <<indexes_vars, rect_a, rect_b, rect_out, rasters, raster, view_geo, buff, tasks,
                   saved_error, pc>>

\* ReadView::read up to the parallel iterator: Buffer::new and
\* par_chunks_mut(view_bounds.size()), which panics on a chunk size of zero
StartRead ==
    /\ pc = "viewed"
    /\ LET n == Len(view.val.bands)
           sz == size(view.val.bounds)
       IN IF sz = 0
          THEN /\ result' = [op |-> "read", kind |-> "panic"]
               /\ pc' = "done"
               /\ UNCHANGED <<buff, tasks>>
          ELSE /\ buff' = [k \in 1..(n * sz) |-> Zeroed]
               /\ tasks' = [i \in 1..n |-> "todo"]
               /\ result' = [op |-> "read", kind |-> "running"]
               /\ pc' = "reading"
    /\ UNCHANGED <<indexes_vars, rect_a, rect_b, rect_out, rasters, raster, view, view_geo, saved_error>>

\* the task of one band runs; the first Err is what the collect saves
BandTask ==
    /\ pc = "reading"
    /\ \E i \in DOMAIN tasks, io \in BOOLEAN :
         /\ tasks[i] = "todo"
         /\ LET t == band_task(view.val, i, io) IN
            /\ tasks' = [tasks EXCEPT ![i] = t.kind]
            /\ buff' = IF t.kind = "ok" THEN write_chunk(buff, view.val, i, t.data) ELSE buff
            /\ saved_error' = IF t.kind = "err" /\ saved_error = None
                              THEN [band |-> i] ELSE saved_error
    /\ UNCHANGED <<indexes_vars, rect_a, rect_b, rect_out, rasters, raster, view, view_geo, result, pc>>

\* once an error is saved the collect stops taking items: a task not yet
\* started may never run
SkipTask ==
    /\ pc = "reading"
    /\ saved_error # None
    /\ \E i \in DOMAIN tasks :
         /\ tasks[i] = "todo"
         /\ tasks' = [tasks EXCEPT ![i] = "skipped"]
    /\ UNCHANGED <<indexes_vars, rect_a, rect_b, rect_out, rasters, raster, view, view_geo, buff,
                   saved_error, result, pc>>

\* collect::<Result<Vec<()>>>()? and Ok(buff); a task's panic resumes in
\* the caller
Finish ==
    /\ pc = "reading"
    /\ \A i \in DOMAIN tasks : tasks[i] # "todo"
    /\ result' = IF \E i \in DOMAIN tasks : tasks[i] = "panic"
                 THEN [op |-> "read", kind |-> "panic"]
                 ELSE IF saved_error # None
                 THEN [op |-> "read", kind |-> "err", band |-> saved_error.band]
                 ELSE [op |-> "read", kind |-> "ok"]
    /\ pc' = "done"
    /\ UNCHANGED <<indexes_vars, rect_a, rect_b, rect_out, rasters, raster, view, view_geo, buff, tasks,
                   saved_error>>

Next == Stack \/ View \/ ViewNonFinite \/ Clip \/ StartRead \/ BandTask \/ SkipTask \/ Finish

Spec == Init /\ [][Next]_vars

\* View::clip(bounds) with the rectangle it hands to
\* self.bounds.intersection(&bounds) kept in rect_b
ClipCall ==
    /\ pc = "viewed"
    /\ \E b \in ClipBounds :
         LET r == clip(view.val, b) IN
         /\ rect_b' = b
         /\ view' = IF r.ok THEN r ELSE view
         /\ result' = [op |-> "clip", ok |-> r.ok]
    /\ UNCHANGED <<indexes_vars, rect_a, rect_out, rasters, raster, view_geo, buff, tasks, saved_error, pc>>

NextClip == Stack \/ View \/ ViewNonFinite \/ ClipCall

SpecClip == Init /\ [][NextClip]_vars

\* sequences over S of length at most n
SeqUpTo(S, n) == UNION { [1..k -> S] : k \in 0..n }

\* the values Indexes::from builds, Indexes::all() among them
IndexesValues ==
    { [selection |-> sel, drop |-> d] : sel \in SeqUpTo(0..MaxIndex, MaxSelection),
                                         d \in BOOLEAN }

\* a Vec<T> of n distinct elements
Collection(n) == [k \in 1..n |-> 100 + k]

InitIndexes ==
    /\ rect_a = None /\ rect_b = None /\ rect_out = None
    /\ sel_indexes \in IndexesValues
    /\ sel_items \in { Collection(n) : n \in 0..MaxCollection }
    /\ sel_out = None
    /\ Idle_rest
    /\ pc = "indexes"

\* Indexes::select_from(collection)
SelectFrom ==
    /\ pc = "indexes"
    /\ sel_out' = IF select_panics(sel_indexes, sel_items) THEN Panicked
                   ELSE Ok(select_from(sel_indexes, sel_items))
    /\ pc' = "selected"
    /\ UNCHANGED <<rect_a, rect_b, rect_out, sel_indexes, sel_items, rasters, raster, view,
                   view_geo, buff, tasks, saved_error, result>>

NextIndexes == SelectFrom

\* three groups at 1, 2 and 3 units per pixel on one extent, next to the
\* scenes of the pipeline
SelectScenes ==
    Scenes \cup { [k \in 1..3 |-> Raster_new(<<F1, F2, F3>>[k])] }

InitSelect ==
    /\ rect_a = None /\ rect_b = None /\ rect_out = None
    /\ NoSelection
    /\ rasters \in SelectScenes
    /\ raster = None
    /\ view = None
    /\ view_geo = None
    /\ buff = <<>>
    /\ tasks = <<>>
    /\ saved_error = None
    /\ result = None
    /\ pc = "start"

\* Raster::view(bounds, band_indexes) with any Indexes, the selection and
\* the bands it is applied to kept in sel_indexes and sel_items; the HashSet
\* of the selected groups is iterated in any order
ViewSelect ==
    /\ pc = "stacked"
    /\ raster.ok
    /\ \E b \in UserBounds, idx \in IndexesValues :
         \E order \in HashOrders(groups_of(idx, group_band(raster.val))) :
           LET r == Raster_view_in(raster.val, b, idx, order) IN
           /\ sel_indexes' = idx
           /\ sel_items' = group_band(raster.val)
           /\ view' = IF r.ok THEN Ok(r.val.view) ELSE r
           /\ view_geo' = IF r.ok THEN r.val.geo ELSE None
           /\ result' = [op |-> "view", ok |-> r.ok]
           /\ pc' = IF r.ok THEN "viewed" ELSE "done"
    /\ UNCHANGED <<rect_a, rect_b, rect_out, sel_out, rasters, raster, buff, tasks,
                   saved_error>>

NextSelect == Stack \/ ViewSelect

SpecSelect == InitSelect /\ [][NextSelect]_vars

SpecIndexes == InitIndexes /\ [][NextIndexes]_vars

(***************************************************************************)
(* Properties of Rect intersection (SpecRect)                              *)
(***************************************************************************)
\* the points of the grid that lie in the closed rectangle r
PointsOf(r) ==
    { c \in { Coord(x, y) : x \in 0..MaxCoord, y \in 0..MaxCoord } :
        /\ r.min.x <= c.x /\ c.x <= r.max.x
        /\ r.min.y <= c.y /\ c.y <= r.max.y }

\* C5: two rectangles that share a point intersect to Ok with min corner =
\* componentwise max of the min corners and max corner = componentwise min
\* of the max corners; two rectangles with no common point give the
\* NoIntersection error.
C5_RectIntersection ==
    rect_out # None =>
        IF PointsOf(rect_a) \cap PointsOf(rect_b) # {}
        THEN rect_out =
               Ok([min |-> Coord(Max2(rect_a.min.x, rect_b.min.x),
                                 Max2(rect_a.min.y, rect_b.min.y)),
                   max |-> Coord(Min2(rect_a.max.x, rect_b.max.x),
                                 Min2(rect_a.max.y, rect_b.max.y))])
        ELSE rect_out = Err("NoIntersection")

\* a partial overlap: the intersection is neither operand
C5_Witness ==
    /\ rect_out # None
    /\ rect_out.ok
    /\ rect_out.val # rect_a
    /\ rect_out.val # rect_b
    /\ size(rect_out.val) > 0

(***************************************************************************)
(* Properties of Raster::stack (SpecStack)                                 *)
(***************************************************************************)
\* greatest / least element of a non-empty set of integers
MaxOf(S) == CHOOSE m \in S : \A n \in S : n <= m
MinOf(S) == CHOOSE m \in S : \A n \in S : m <= n

\* the geometric intersection of the extents of rs, as corners
CommonLo(rs) ==
    Coord(MaxOf({ rs[i].bounds.min.x : i \in DOMAIN rs }),
          MaxOf({ rs[i].bounds.min.y : i \in DOMAIN rs }))
CommonHi(rs) ==
    Coord(MinOf({ rs[i].bounds.max.x : i \in DOMAIN rs }),
          MinOf({ rs[i].bounds.max.y : i \in DOMAIN rs }))
CommonOverlap(rs) ==
    /\ CommonLo(rs).x <= CommonHi(rs).x
    /\ CommonLo(rs).y <= CommonHi(rs).y

\* two extents with no common point
Disjoint(a, b) ==
    \/ a.max.x < b.min.x \/ b.max.x < a.min.x
    \/ a.max.y < b.min.y \/ b.max.y < a.min.y

\* the first input that is disjoint from an earlier one
FirstDisjoint(rs) ==
    MinOf({ k \in DOMAIN rs :
              \E i \in 1..(k - 1) : Disjoint(rs[i].bounds, rs[k].bounds) })

\* C6: stacking rasters whose extents share a common overlap gives a Raster
\* whose bounds are exactly the geometric intersection of all the input
\* bounds, and every reordering of the inputs gives the same bounds.
C6_StackBounds ==
    (pc = "stacked" /\ CommonOverlap(rasters)) =>
        /\ raster.ok
        /\ raster.val.bounds = [min |-> CommonLo(rasters), max |-> CommonHi(rasters)]
        /\ \A p \in Permutations(DOMAIN rasters) :
             LET r == stack([k \in DOMAIN rasters |-> rasters[p[k]]]) IN
             r.ok /\ r.val.bounds = raster.val.bounds

\* three inputs whose intersection is none of their own extents
C6_Witness ==
    /\ pc = "stacked"
    /\ Len(rasters) = 3
    /\ raster.ok
    /\ \A i \in DOMAIN rasters : raster.val.bounds # rasters[i].bounds
    /\ rasters[1].bounds # rasters[3].bounds

\* C7: stack fails with NoIntersection exactly when two inputs have
\* disjoint extents; it fails at the first input that is disjoint from an
\* earlier one, takes no later input and produces no Raster.
C7_StackError ==
    pc = "stacked" =>
        /\ ~raster.ok <=>
             \E i \in DOMAIN rasters, j \in DOMAIN rasters :
                 Disjoint(rasters[i].bounds, rasters[j].bounds)
        /\ ~raster.ok =>
             /\ raster = Err("NoIntersection")
             /\ result.steps = FirstDisjoint(rasters)
        /\ raster.ok => result.steps = Len(rasters)

\* the failure comes at the second of three inputs: the third is not taken
C7_Witness ==
    /\ pc = "stacked"
    /\ ~raster.ok
    /\ Len(rasters) = 3
    /\ result.steps = 2

(***************************************************************************)
(* Properties of the pipeline (Spec)                                       *)
(***************************************************************************)
\* the groups' files behind the bands of view v
FilesOf(v) == { v.bands[k].file : k \in DOMAIN v.bands }

\* the native pixel shape of a group over the region of the view
NativeShape(f) == shape(GeoBounds_as_read_bounds(view_geo, f))
NativeMin(f) == GeoBounds_as_read_bounds(view_geo, f).min

RECURSIVE Product(_)
Product(S) ==
    IF S = {} THEN 1
    ELSE LET s == CHOOSE s \in S : TRUE IN s * Product(S \ {s})

\* the least positive integer every member of S divides; 0 when S holds 0
LeastCommonMultiple(S) ==
    IF 0 \in S THEN 0
    ELSE CHOOSE m \in 1..Product(S) :
           /\ \A s \in S : m % s = 0
           /\ \A k \in 1..(m - 1) : \E s \in S : k % s # 0

\* the view is the one Raster::view built, not a proper clip of it
Unclipped(v) == v.bounds = build_raster_view_bounds(view_geo, FilesOf(v))

ReadReturnedOk == pc = "done" /\ result.op = "read" /\ result.kind = "ok"

\* element (cx, cy) of the chunk of band position i, window-relative
ChunkAt(v, i, cx, cy) ==
    buff[(i - 1) * size(v.bounds) + cy * shape(v.bounds).x + cx + 1]

\* C3: the view Raster::view builds has offset (0, 0) and on each axis an
\* extent equal to the least common multiple of the native extents of the
\* distinct groups of the selected bands, hence a whole multiple of each.
C3_ViewIsLcm ==
    (pc = "viewed" /\ result.op = "view") =>
        LET v == view.val
            ws == { NativeShape(f).x : f \in FilesOf(v) }
            hs == { NativeShape(f).y : f \in FilesOf(v) }
        IN /\ v.bounds.min = Coord(0, 0)
           /\ v.bounds.max.x = LeastCommonMultiple(ws)
           /\ v.bounds.max.y = LeastCommonMultiple(hs)
           /\ \A w \in ws : \E n \in 0..v.bounds.max.x : v.bounds.max.x = n * w
           /\ \A h \in hs : \E n \in 0..v.bounds.max.y : v.bounds.max.y = n * h

\* two groups of coprime native widths: the view is wider than both
C3_Witness ==
    /\ pc = "viewed"
    /\ result.op = "view"
    /\ LET ws == { NativeShape(f).x : f \in FilesOf(view.val) } IN
       /\ Cardinality(ws) = 2
       /\ \A w \in ws : 0 < w /\ w < view.val.bounds.max.x

\* the result of running the band tasks one after the other
SequentialRead(v) ==
    LET sz == size(v.bounds)
        datas == [i \in DOMAIN v.bands |-> band_task(v, i, TRUE).data]
    IN [k \in 1..(Len(v.bands) * sz) |-> datas[((k - 1) \div sz) + 1][((k - 1) % sz) + 1]]

\* a step of the parallel read changes buffer elements only inside the
\* chunk [(i-1)*H*W, i*H*W) of the one task i that ran, and never an
\* element already written
C9_Step ==
    (pc = "reading" /\ pc' = "reading") =>
        \A k \in DOMAIN buff :
            buff'[k] # buff[k] =>
                /\ buff[k] = Zeroed
                /\ \E i \in DOMAIN tasks :
                     /\ tasks[i] = "todo" /\ tasks'[i] # "todo"
                     /\ \A j \in DOMAIN tasks \ {i} : tasks'[j] = tasks[j]
                     /\ k > (i - 1) * size(view.val.bounds)
                     /\ k <= i * size(view.val.bounds)

\* whatever the schedule was, a read that returns Ok returns the buffer of
\* the sequential run
C9_Final ==
    (pc' = "done" /\ result'.op = "read" /\ result'.kind = "ok") =>
        buff' = SequentialRead(view'.val)

\* C9: the band tasks may run in any order: the task at position i writes
\* only inside the i-th contiguous chunk of the buffer, no two tasks write
\* the same element, and the final buffer is the same for every schedule.
C9_ChunkIsolation == [][C9_Step /\ C9_Final]_vars

\* the second band's task has run before the first
C9_Witness ==
    /\ pc = "reading"
    /\ Len(tasks) = 2
    /\ tasks[1] = "todo"
    /\ tasks[2] = "ok"
    /\ buff[1] = Zeroed
    /\ buff[Len(buff)] # Zeroed

\* C10: both conversions to an integer pixel window round the minimum
\* corner down and the maximum corner up.
C10_OutwardRounding ==
    (pc = "viewed" /\ size(view.val.bounds) > 0) =>
        \A k \in DOMAIN view.val.bands :
            LET b == view.val.bands[k] IN
            /\ GeoBounds_as_read_bounds(view_geo, b.file)
                 = as_read_bounds_outward(view_geo, b.file)
            /\ ViewBounds_as_read_bounds(view.val.bounds, b.transform)
                 = as_read_bounds_floor_min(view.val.bounds, b.transform)

\* the two conversions of band b give the outward-rounded windows here
RoundsOutward(v, b) ==
    /\ GeoBounds_as_read_bounds(view_geo, b.file)
         = as_read_bounds_outward(view_geo, b.file)
    /\ ViewBounds_as_read_bounds(v.bounds, b.transform)
         = as_read_bounds_floor_min(v.bounds, b.transform)

\* C1: after read(), in the chunk of every band whose native read shape
\* differs from the view shape, the pixel at view coordinate (x, y) holds
\* the native pixel whose block contains (x, y), for every window.  It is
\* stated for the windows whose native window is the outward-rounded one,
\* so that only the replication is in question.
C1_NearestNeighbour ==
    ReadReturnedOk =>
        \A i \in DOMAIN view.val.bands :
            LET v == view.val
                b == v.bands[i]
                t == b.transform
                vs == shape(v.bounds)
            IN (shape(ViewBounds_as_read_bounds(v.bounds, t)) # vs /\ RoundsOutward(v, b)) =>
                 \A cx \in 0..(vs.x - 1), cy \in 0..(vs.y - 1) :
                     ChunkAt(v, i, cx, cy) =
                         Pixel(b.file, b.band,
                               Floor(t.xo + t.xn * (v.bounds.min.x + cx), t.xd),
                               Floor(t.yo + t.yn * (v.bounds.min.y + cy), t.yd))

\* C2: an unclipped read returns (bands, H, W) with W and H the least
\* common multiples of the groups' native shapes (w_g, h_g), and native
\* pixel (i, j) of a band fills the (W / w_g) x (H / h_g) block that starts
\* at (i * W / w_g, j * H / h_g).
C2_UnclippedBlocks ==
    (ReadReturnedOk /\ Unclipped(view.val)) =>
        LET v == view.val
            W == shape(v.bounds).x
            H == shape(v.bounds).y
        IN /\ W = LeastCommonMultiple({ NativeShape(f).x : f \in FilesOf(v) })
           /\ H = LeastCommonMultiple({ NativeShape(f).y : f \in FilesOf(v) })
           /\ Len(buff) = Len(v.bands) * H * W
           /\ \A i \in DOMAIN v.bands :
                LET b == v.bands[i]
                    ns == NativeShape(b.file)
                IN \A x \in 0..(W - 1), y \in 0..(H - 1) :
                     ChunkAt(v, i, x, y) =
                         Pixel(b.file, b.band,
                               NativeMin(b.file).x + (x \div (W \div ns.x)),
                               NativeMin(b.file).y + (y \div (H \div ns.y)))

\* C4: when every selected band is of one group, the view has the group's
\* native shape, every band is read 1:1 (or as a single pixel when the
\* shape is 1x1), and its chunk is the native window element for element.
C4_SingleGroup ==
    (ReadReturnedOk /\ Cardinality({ view.val.bands[k].g : k \in DOMAIN view.val.bands }) = 1) =>
        LET v == view.val
            vs == shape(v.bounds)
        IN \A i \in DOMAIN v.bands :
             LET b == v.bands[i]
                 path == read_path(vs, shape(ViewBounds_as_read_bounds(v.bounds, b.transform)))
             IN /\ Unclipped(v) => vs = NativeShape(b.file)
                /\ path = IF vs = Coord(1, 1) THEN "pixel" ELSE "direct"
                /\ \A cx \in 0..(vs.x - 1), cy \in 0..(vs.y - 1) :
                     ChunkAt(v, i, cx, cy) =
                         Pixel(b.file, b.band,
                               NativeMin(b.file).x + v.bounds.min.x + cx,
                               NativeMin(b.file).y + v.bounds.min.y + cy)

\* C8: if a band's reader returned an error, read() returns Err with the
\* first error encountered; read() returns Ok only when every band's read
\* succeeded.
C8_ErrorPropagation ==
    (pc = "done" /\ result.op = "read") =>
        /\ (\E i \in DOMAIN tasks : tasks[i] = "err") =>
              /\ result.kind = "err"
              /\ result.band = saved_error.band
        /\ result.kind = "ok" => \A i \in DOMAIN tasks : tasks[i] = "ok"

\* the outward-rounded native window of the view window of v for band b
OutwardWindow(v, b) == as_read_bounds_floor_min(v.bounds, b.transform)

\* C11: a band whose native window is 1x1 (a region or a view window that
\* lies inside one native pixel rounds to a 1x1 window, never to an empty
\* one) has every element of its chunk filled with the value read at the
\* window's offset.
C11_SinglePixelFill ==
    /\ (pc = "viewed" /\ result.op = "view") =>
          \A k \in DOMAIN view.val.bands :
              LET f == view.val.bands[k].file IN
              shape(as_read_bounds_outward(view_geo, f)) = Coord(1, 1) =>
                  shape(GeoBounds_as_read_bounds(view_geo, f)) = Coord(1, 1)
    /\ (pc = "done" /\ result.op = "read" /\ size(view.val.bounds) > 0) =>
          \A i \in DOMAIN tasks :
              LET v == view.val
                  b == v.bands[i]
                  vs == shape(v.bounds)
                  w == OutwardWindow(v, b)
              IN (shape(w) = Coord(1, 1) /\ tasks[i] \notin {"err", "skipped"}) =>
                   /\ ViewBounds_as_read_bounds(v.bounds, b.transform) = w
                   /\ tasks[i] = "ok"
                   /\ \A cx \in 0..(vs.x - 1), cy \in 0..(vs.y - 1) :
                        ChunkAt(v, i, cx, cy) = Pixel(b.file, b.band, w.min.x, w.min.y)

\* C12: clipping a View to its own bounds gives Ok with the same bounds,
\* and clipping twice with one rectangle gives the bounds of clipping once.
C12_ClipIdempotent ==
    pc = "viewed" =>
        LET v == view.val
            own == clip(v, v.bounds)
        IN /\ own.ok
           /\ own.val.bounds = v.bounds
           /\ \A b \in ClipBounds :
                LET once == clip(v, b) IN
                once.ok =>
                    LET twice == clip(once.val, b) IN
                    twice.ok /\ twice.val.bounds = once.val.bounds

\* a view that a clip has moved off the origin
C12_Witness ==
    /\ pc = "viewed"
    /\ result.op = "clip"
    /\ result.ok
    /\ view.val.bounds.min = Coord(1, 1)
    /\ size(view.val.bounds) > 1

\* what Raster::view is to build its view over, for the optional bounds b
ViewRegion(r, b) ==
    IF b = None THEN Ok(r.bounds)
    ELSE IF Disjoint(r.bounds, b.some) THEN Err("NoIntersection")
    ELSE Ok([min |-> Coord(Max2(r.bounds.min.x, b.some.min.x),
                           Max2(r.bounds.min.y, b.some.min.y)),
             max |-> Coord(Min2(r.bounds.max.x, b.some.max.x),
                           Min2(r.bounds.max.y, b.some.max.y))])

\* Raster::view on every argument of the model
C13_Function ==
    \A b \in UserBounds, idx \in Selections(Len(group_band(raster.val))) :
        LET r == Raster_view(raster.val, b, idx)
            region == ViewRegion(raster.val, b)
        IN IF region.ok
           THEN r.ok /\ r.val.geo = region.val
           ELSE r = Err("NoIntersection")

\* a call of Raster::view: the Raster stays as it was, and a failed call
\* leaves no View
C13_Step ==
    /\ raster' = raster
    /\ rasters' = rasters
    /\ \E b \in UserBounds :
         LET region == ViewRegion(raster.val, b) IN
         IF region.ok
         THEN /\ result' = [op |-> "view", ok |-> TRUE]
              /\ view'.ok
              /\ view_geo' = region.val
         ELSE /\ result' = [op |-> "view", ok |-> FALSE]
              /\ view' = Err("NoIntersection")
              /\ view_geo' = None
              /\ pc' = "done"

C15_FullyWritten ==
    ReadReturnedOk =>
        /\ Len(buff) = Len(view.val.bands) * shape(view.val.bounds).y * shape(view.val.bounds).x
        /\ \A k \in DOMAIN buff : buff[k] # Zeroed

\* band i (from 0) of the concatenation of the groups of the rasters given
\* to stack, scanning from raster k
RECURSIVE NthBand(_, _, _)
NthBand(rs, k, i) ==
    LET f == rs[k].bands[1] IN
    IF i < f.nb THEN [g |-> k, file |-> f, band |-> i]
    ELSE NthBand(rs, k + 1, i - f.nb)

RECURSIVE TotalBands(_, _)
TotalBands(rs, k) ==
    IF k > Len(rs) THEN 0 ELSE rs[k].bands[1].nb + TotalBands(rs, k + 1)

\* the band indexes a selection of the model denotes
Denoted(idx, n) == IF idx.drop THEN [c \in 1..n |-> c - 1] ELSE idx.selection

\* the bands of view v are those the indexes sel denote, in that order,
\* each with the transform from the unclipped view `full` to its own group
BandsFollow(v, full, geo, sel) ==
    /\ Len(v.bands) = Len(sel)
    /\ \A c \in DOMAIN sel :
         LET want == NthBand(rasters, 1, sel[c]) IN
         /\ v.bands[c].g = want.g
         /\ v.bands[c].file = want.file
         /\ v.bands[c].band = want.band
         /\ v.bands[c].transform = ViewReadTransform_new(full, geo, want.file)

\* C14: band index i of Raster::view is the i-th band of the concatenation
\* of the groups (stack order, file order inside a group); the view keeps
\* the selection order, and channel c of the buffer read() returns holds
\* data of the band selected at position c, taken through that band's own
\* transform.
C14_BandOrder ==
    /\ (pc = "stacked" /\ raster.ok) =>
          /\ Len(group_band(raster.val)) = TotalBands(rasters, 1)
          /\ \A idx \in Selections(TotalBands(rasters, 1)) :
               LET r == Raster_view(raster.val, None, idx) IN
               r.ok /\ BandsFollow(r.val.view, r.val.view.bounds, r.val.geo, Denoted(idx, TotalBands(rasters, 1)))
    /\ (pc \in {"viewed", "reading"} \/ (pc = "done" /\ result.op = "read")) =>
          \E idx \in Selections(TotalBands(rasters, 1)) :
              BandsFollow(view.val, build_raster_view_bounds(view_geo, FilesOf(view.val)),
                          view_geo, Denoted(idx, TotalBands(rasters, 1)))
    /\ ReadReturnedOk =>
          \A c \in DOMAIN view.val.bands :
              LET v == view.val
                  b == v.bands[c]
                  w == OutwardWindow(v, b)
              IN \A cx \in 0..(shape(v.bounds).x - 1), cy \in 0..(shape(v.bounds).y - 1) :
                   \E px \in w.min.x..(w.max.x - 1), py \in w.min.y..(w.max.y - 1) :
                       ChunkAt(v, c, cx, cy) = Pixel(b.file, b.band, px, py)

\* C16: a numeric conversion that fails during Raster::view (here the cast
\* of a region with a non-finite coordinate to pixel coordinates) comes
\* back to the caller as a typed error result; it does not abort the call.
C16_CastErrorsReturned ==
    (pc = "done" /\ result.op = "view" /\ view_geo = NaNRect) =>
        /\ ~view.ok
        /\ view # Panicked
        /\ "err" \in DOMAIN view


\* a pixel rectangle with non-negative offset and strictly positive extent
NonDegenerate(b) ==
    /\ b.min.x >= 0 /\ b.min.y >= 0
    /\ b.max.x > b.min.x /\ b.max.y > b.min.y

\* C17: the ViewBounds of every View returned Ok by Raster::view or by
\* View::clip, and every ReadBounds that read() derives from it for a band,
\* has non-negative offset and strictly positive width and height.
C17_NonDegenerate ==
    (pc \in {"viewed", "reading"} \/ (pc = "done" /\ result.op = "read")) =>
        /\ NonDegenerate(view.val.bounds)
        /\ \A i \in DOMAIN view.val.bands :
               NonDegenerate(ViewBounds_as_read_bounds(view.val.bounds,
                                                       view.val.bands[i].transform))

\* rectangle a lies inside rectangle b
Within(a, b) ==
    /\ b.min.x <= a.min.x /\ a.max.x <= b.max.x
    /\ b.min.y <= a.min.y /\ a.max.y <= b.max.y

\* a step that is a call of View::clip
ClipStep == pc = "viewed" /\ pc' = "viewed"

\* C18: View::clip returns a View with the bands of the original, in the
\* same order and with the same view-to-read transforms, whose bounds lie
\* inside the original's bounds and inside the clip rectangle; it reads
\* nothing (buffer and tasks untouched) and changes neither the raster nor,
\* when it fails, the view the caller holds.
C18_ClipFrame ==
    [][ClipStep =>
          /\ result'.op = "clip"
          /\ UNCHANGED <<rasters, raster, view_geo, buff, tasks, saved_error>>
          /\ IF result'.ok
             THEN /\ view'.ok
                  /\ view'.val.bands = view.val.bands
                  /\ Within(view'.val.bounds, view.val.bounds)
                  /\ Within(view'.val.bounds, rect_b')
             ELSE view' = view]_vars

\* a clip that returned a window smaller than both the unclipped view and
\* the clip rectangle
C18_Witness ==
    /\ pc = "viewed"
    /\ result.op = "clip"
    /\ result.ok
    /\ size(view.val.bounds) > 0
    /\ view.val.bounds # build_raster_view_bounds(view_geo, FilesOf(view.val))
    /\ view.val.bounds # rect_b
    /\ Len(view.val.bands) = 2


\* the native window read() derives for the band at position i
ReadBoundsOf(v, i) == ViewBounds_as_read_bounds(v.bounds, v.bands[i].transform)

\* the chunker read() builds for the band at position i
ChunkerOf(v, i) == ResolutionChunker_new(v.bounds, ReadBoundsOf(v, i))

\* the task of position i has run and has built its chunker
RanChunked(i) ==
    /\ pc \in {"reading", "done"}
    /\ i \in DOMAIN tasks
    /\ tasks[i] \in {"ok", "panic"}
    /\ read_path(shape(view.val.bounds), shape(ReadBoundsOf(view.val, i))) = "chunked"
    /\ ~ChunkerOf(view.val, i).panic

\* C19: in the chunker of every view window the first column's block width
\* is ratio.x - (view.min.x mod ratio.x) and the first row's block height is
\* ratio.y - (view.min.y mod ratio.y).
C19_ChunkerAlignment ==
    \A i \in 1..MaxStack :
        RanChunked(i) =>
            LET ch == ChunkerOf(view.val, i)
                vb == view.val.bounds
            IN /\ read_col_idx_to_block_width(ch, 0) = ch.ratio.x - (vb.min.x % ch.ratio.x)
               /\ read_row_idx_to_block_height(ch, 0) = ch.ratio.y - (vb.min.y % ch.ratio.y)

RECURSIVE SumWidths(_, _)
SumWidths(ch, n) ==
    IF n = 0 THEN 0 ELSE SumWidths(ch, n - 1) + read_col_idx_to_block_width(ch, n - 1)

RECURSIVE SumHeights(_, _)
SumHeights(ch, n) ==
    IF n = 0 THEN 0 ELSE SumHeights(ch, n - 1) + read_row_idx_to_block_height(ch, n - 1)

\* C20: in the chunker of every view window the block widths of the read
\* columns sum to the view width and the block heights of the read rows sum
\* to the view height.
C20_BlocksTile ==
    \A i \in 1..MaxStack :
        RanChunked(i) =>
            LET ch == ChunkerOf(view.val, i)
                vs == shape(view.val.bounds)
            IN /\ SumWidths(ch, ch.read_shape.x) = vs.x
               /\ SumHeights(ch, ch.read_shape.y) = vs.y


\* C21: for every view window handled by the general chunker the ratio of
\* the chunker equals ViewReadTransform::ratio of the band's transform, and
\* on each axis the view shape is the read shape times a positive integer.
C21_RatioIsTransformRatio ==
    \A i \in 1..MaxStack :
        RanChunked(i) =>
            LET ch == ChunkerOf(view.val, i)
                tr == ViewReadTransform_ratio(view.val.bands[i].transform)
                vs == shape(view.val.bounds)
            IN /\ ~tr.panic
               /\ ch.ratio = Coord(tr.x, tr.y)
               /\ \E nx \in 1..vs.x, ny \in 1..vs.y :
                      /\ vs.x = ch.read_shape.x * nx
                      /\ vs.y = ch.read_shape.y * ny


\* the maximum of one rectangle is strictly below the minimum of the other
\* on some axis
StrictlyApart(a, b) ==
    \/ a.max.x < b.min.x \/ b.max.x < a.min.x
    \/ a.max.y < b.min.y \/ b.max.y < a.min.y

TouchX(a, b) == a.max.x = b.min.x \/ b.max.x = a.min.x

TouchY(a, b) == a.max.y = b.min.y \/ b.max.y = a.min.y

\* C22: rectangles that only touch on an axis intersect to Ok with a
\* rectangle of zero extent on that axis; NoIntersection is returned exactly
\* when the rectangles are strictly apart on some axis.
C22_TouchingIntersects ==
    rect_out # None =>
        /\ (rect_out = Err("NoIntersection")) <=> StrictlyApart(rect_a, rect_b)
        /\ rect_out.ok <=> ~StrictlyApart(rect_a, rect_b)
        /\ (~StrictlyApart(rect_a, rect_b) /\ TouchX(rect_a, rect_b)) =>
               shape(rect_out.val).x = 0
        /\ (~StrictlyApart(rect_a, rect_b) /\ TouchY(rect_a, rect_b)) =>
               shape(rect_out.val).y = 0

\* two rectangles of positive area that share one edge only
C22_Witness ==
    /\ rect_out # None
    /\ rect_out.ok
    /\ size(rect_a) > 0 /\ size(rect_b) > 0
    /\ rect_a.max.x = rect_b.min.x
    /\ shape(rect_out.val).x = 0
    /\ shape(rect_out.val).y > 0


\* n is an integer multiple of m
Divides(m, n) == \E k \in 0..n : n = m * k

\* the native extents of groups f and g over the region of the view are
\* integer multiples of each other on both axes
MultipleResolutions(f, g) ==
    /\ Divides(NativeShape(f).x, NativeShape(g).x) \/ Divides(NativeShape(g).x, NativeShape(f).x)
    /\ Divides(NativeShape(f).y, NativeShape(g).y) \/ Divides(NativeShape(g).y, NativeShape(f).y)

\* C23: Raster::view produces a view (and read() reads it) only when the
\* native extents of the selected groups over the region are integer
\* multiples of each other; otherwise the call ends with an error.
C23_NonMultipleIsError ==
    ((pc = "viewed" /\ result.op = "view") \/ ReadReturnedOk) =>
        \A f \in FilesOf(view.val), g \in FilesOf(view.val) : MultipleResolutions(f, g)


\* the view Raster::view returned, before any clip
FullView == [bounds |-> build_raster_view_bounds(view_geo, FilesOf(view.val)),
             bands |-> view.val.bands]

\* element (x, y) of the channel that read() of the unclipped view gives
\* the band at position i
FullReadAt(i, x, y) ==
    band_task(FullView, i, TRUE).data[y * shape(FullView.bounds).x + x + 1]

\* C24: a read of a clipped view returns, for each band, the sub-window of
\* the channel that a read of the unclipped view returns for that band.
C24_ClipReadIsCrop ==
    ReadReturnedOk =>
        \A i \in DOMAIN view.val.bands :
            band_task(FullView, i, TRUE).kind = "ok" =>
                \A cx \in 0..(shape(view.val.bounds).x - 1),
                   cy \in 0..(shape(view.val.bounds).y - 1) :
                    ChunkAt(view.val, i, cx, cy) =
                        FullReadAt(i, view.val.bounds.min.x + cx, view.val.bounds.min.y + cy)


\* C25: for the unclipped view built by Raster::view, the read window that
\* read() derives for each band (ViewBounds::as_read_bounds) is the native
\* rectangle GeoBounds::as_read_bounds computed for the band's group when
\* the view grid was built: same offset, same shape.
C25_ReadWindowIsNativeRect ==
    (pc = "viewed" /\ result.op = "view" /\ size(view.val.bounds) > 0) =>
        \A i \in DOMAIN view.val.bands :
            ReadBoundsOf(view.val, i) =
                GeoBounds_as_read_bounds(view_geo, view.val.bands[i].file)


\* the task of position i has run and has taken the chunker arm of read()
RanChunkerArm(i) ==
    /\ pc \in {"reading", "done"}
    /\ i \in DOMAIN tasks
    /\ tasks[i] \in {"ok", "panic"}
    /\ read_path(shape(view.val.bounds), shape(ReadBoundsOf(view.val, i))) = "chunked"

\* where the block of read column col_idx starts in an output row
ColStart(ch, col_idx) ==
    col_idx * ch.ratio.x + ch.left_block_width - read_col_idx_to_block_width(ch, col_idx)

\* C26: in read_resolution_chucked, for every view window and read window
\* read() passes to it, no index leaves its slice (no panic), the ratio
\* computation does not divide by zero, and no block written for an output
\* row runs over into the following row.
C26_ChunkerIndexesInRange ==
    \A i \in 1..MaxStack :
        RanChunkerArm(i) =>
            /\ ~ChunkerOf(view.val, i).panic
            /\ tasks[i] # "panic"
            /\ LET ch == ChunkerOf(view.val, i) IN
               \A col_idx \in 0..(ch.read_shape.x - 1) :
                   ColStart(ch, col_idx) + read_col_idx_to_block_width(ch, col_idx)
                       <= ch.view_width


Ascending(s) == \A i \in DOMAIN s, j \in DOMAIN s : i < j => s[i] < s[j]

\* C28: with drop = true indexes_from(len) returns, ascending and without
\* repetition, exactly the indices of 0..len that are not in the selection
\* (so Indexes::all().select_from(c) returns c); with drop = false it
\* returns the selection as given, order and repetitions kept.
C28_IndexesFrom ==
    pc = "selected" =>
        LET len == Len(sel_items)
            is == indexes_from(sel_indexes, len)
        IN /\ IF sel_indexes.drop
              THEN /\ Ascending(is)
                   /\ Range(is) = (0..(len - 1)) \ Range(sel_indexes.selection)
              ELSE is = sel_indexes.selection
           /\ sel_indexes = Indexes_all => sel_out = Ok(sel_items)
           /\ sel_out # Panicked =>
                  /\ sel_out.ok
                  /\ Len(sel_out.val) = Len(is)
                  /\ \A k \in DOMAIN is : sel_out.val[k] = sel_items[is[k] + 1]

\* a dropping selection with a repeated index and an index past the end,
\* applied to a collection it leaves something of
C28_Witness ==
    /\ pc = "selected"
    /\ sel_indexes.drop
    /\ sel_indexes.selection = <<1, 1, 3>>
    /\ Len(sel_items) = 3
    /\ sel_out = Ok(<<sel_items[1], sel_items[3]>>)


\* Raster::view has been called with the selection kept in sel_indexes
ViewSelected == pc \in {"viewed", "done"} /\ result.op = "view" /\ sel_indexes # None

\* C29: Raster::view returns Ok only for a selection that resolves to at
\* least one band and, with drop = false, only when every selected index is
\* below the raster's band count; a View it returns has at least one band
\* and only bands of the Raster.  Any other selection ends the call without
\* a View.
C29_ViewNeedsBands ==
    ViewSelected =>
        LET n == Len(sel_items)
            is == indexes_from(sel_indexes, n)
            resolvable == /\ is # <<>>
                          /\ \A k \in DOMAIN is : is[k] < n
        IN /\ view.ok =>
                /\ resolvable
                /\ ~sel_indexes.drop =>
                       \A k \in DOMAIN sel_indexes.selection : sel_indexes.selection[k] < n
                /\ Len(view.val.bands) >= 1
                /\ \A k \in DOMAIN view.val.bands :
                       \E j \in DOMAIN sel_items :
                           /\ sel_items[j].file = view.val.bands[k].file
                           /\ sel_items[j].band = view.val.bands[k].band
                           /\ sel_items[j].g = view.val.bands[k].g
           /\ ~resolvable => (~view.ok /\ pc = "done")

\* a call with an index past the end of the raster's three bands
C29_Witness ==
    /\ ViewSelected
    /\ view = Panicked
    /\ ~sel_indexes.drop
    /\ sel_indexes.selection = <<0, 3>>
    /\ Len(sel_items) = 3


\* selection idx picks at least one band of `bands` and no index past the end
Resolvable(idx, bands) ==
    /\ indexes_from(idx, Len(bands)) # <<>>
    /\ ~select_panics(idx, bands)

\* C30: the view bounds InfoView::new computes depend only on the set of
\* distinct groups among the selected bands and on the region: any other
\* selection with the same groups (permuted, with repeated bands, with more
\* bands of a selected group), under any iteration order of the HashSet of
\* groups, gives the same view bounds.
C30_ViewShapeByGroupSet ==
    (ViewSelected /\ view.ok) =>
        \A other \in IndexesValues :
            (/\ Resolvable(other, sel_items)
             /\ groups_of(other, sel_items) = groups_of(sel_indexes, sel_items)) =>
                \A order \in HashOrders(groups_of(other, sel_items)) :
                    InfoView_new_in(view_geo, select_from(other, sel_items), order).bounds
                        = view.val.bounds

\* a view of two groups of different resolution selected out of order and
\* with a band repeated
C30_Witness ==
    /\ ViewSelected
    /\ view.ok
    /\ sel_indexes = [selection |-> <<2, 0, 2>>, drop |-> FALSE]
    /\ Cardinality(groups_of(sel_indexes, sel_items)) = 2
    /\ Len(view.val.bands) = 3
    /\ size(view.val.bounds) > 0

====
